---- MODULE Spec2Model ----
(***************************************************************************)
(* Locally-ordered clustering BVH builder (dp-bvh).                       *)
(*                                                                         *)
(* Geometry is one-dimensional: every volume lies on the x axis and has a  *)
(* unit cross-section.  A box is <<min, max>>, a cylinder is <<p1, h>>     *)
(* (base point and height), the radius being 1/2.  Node arrays are         *)
(* functions over 0 .. node_count-1, as in the C++ arrays.                 *)
(***************************************************************************)
EXTENDS Integers, Sequences, FiniteSets, Bags, TLC

\* ------------------------------------------------------------------ bounds
MaxPrimitives == 4
MaxRadius == 2
MaxThreads == 3
MaxIteration == 1
\* build calls made on one Bvh, and primitives handed to a call after the first
MaxBuilds == 2
MaxRebuildPrimitives == 1

\* x positions of the unit primitives handed to a build
Positions == {0, 1}

\* ------------------------------------------------------- program constants
\* size_t(-1): "no neighbor found"
NoNeighbor == -1
\* std::numeric_limits<Scalar>::max()
ScalarMax == 1000000

\* ---------------------------------------------------------------- helpers
Min(a, b) == IF a < b THEN a ELSE b
Max(a, b) == IF a > b THEN a ELSE b

\* BoundingBox::extend / half_area (unit cross-section: dx*1 + 1*1 + 1*dx)
BoxExtend(a, b) == <<Min(a[1], b[1]), Max(a[2], b[2])>>
BoxHalfArea(v) == 2 * (v[2] - v[1]) + 1

\* BoundingCyl::extend / half_area / AABB, coaxial cylinders of radius 1/2;
\* half_area = pi*r*(h + r), in units of pi/4
CylExtend(a, b) ==
    LET lo == Min(a[1], b[1])
        hi == Max(a[1] + a[2], b[1] + b[2])
    IN  <<lo, hi - lo>>
CylHalfArea(v) == 2 * v[2] + 1
AABB(c) == <<c[1], c[1] + c[2]>>

\* value-initialised Bvh::Node and Bvh::CustomNode (std::make_unique<T[]>)
ZeroNode ==
    [vol |-> <<0, 0>>, is_leaf |-> FALSE, primitive_count |-> 0,
     first_child_or_primitive |-> 0, origin |-> 0]
ZeroCustomNode ==
    [vol |-> <<0, 0>>, is_leaf |-> FALSE, primitive_count |-> 0,
     first_child_or_primitive |-> 0]

\* the volume handed in for a unit primitive at position x
UnitBox(x) == <<x, x + 1>>
UnitCyl(x) == <<x, 1>>

\* sort_primitives_by_morton_code: indices ordered by the key of their
\* centers (the Morton code of a point on the x axis grows with x), ties
\* keeping the input order
RankOf(centers, i) ==
    Cardinality({j \in DOMAIN centers :
        centers[j] < centers[i] \/ (centers[j] = centers[i] /\ j < i)})
sort_primitives_by_morton_code(centers) ==
    [r \in DOMAIN centers |->
        CHOOSE i \in DOMAIN centers : RankOf(centers, i) = r]

\* centers the callers hand in: two primitives to a cell of the curve, the
\* cells against the order of the curve
CenterInputs(n) == {[i \in 0 .. n - 1 |-> (n - 1 - i) \div 2]}

\* ------------------------------------------------------------ cluster()
\* kind is "box" for Bvh::Node arrays and "cyl" for Bvh::CustomNode arrays.

\* mutant: the search looks at the nodes after i only
search_range_forward_only(i, b, e, R) ==
    <<i, Min(i + R + 1, e)>>
\* mutant: the range ends one node early, at i + search_radius
search_range_ends_early(i, b, e, R) ==
    <<IF i > b + R THEN i - R ELSE b, Min(i + R, e)>>
search_range(i, b, e, R) ==
    <<IF i > b + R THEN i - R ELSE b, Min(i + R + 1, e)>>

\* merge cost of the nodes i and j of input
Cost(kind, input, i, j) ==
    IF kind = "box"
    THEN BoxHalfArea(BoxExtend(input[i].vol, input[j].vol))
    ELSE CylHalfArea(CylExtend(input[i].vol, input[j].vol))

\* per-thread chunk of the window
chunk_size(b, e, T) == (e - b) \div T
chunk_begin(b, e, T, t) == b + t * chunk_size(b, e, T)
\* mutant: every thread searches up to the end of the window
chunk_end_always_end(b, e, T, t) == e
\* mutant: the last thread does not take the remainder of the division
chunk_end_without_remainder(b, e, T, t) ==
    chunk_begin(b, e, T, t) + chunk_size(b, e, T)
chunk_end(b, e, T, t) ==
    IF t # T - 1 THEN chunk_begin(b, e, T, t) + chunk_size(b, e, T) ELSE e

\* mutant: the distance matrix of a chunk is left as allocated
DistanceMatrixInit_not_filled(kind, input, b, e, R, cb) ==
    [r \in 0 .. R |-> [c \in 0 .. R - 1 |-> 0]]
\* the freshly allocated (zeroed) distance matrix after its initialisation
\* for a chunk starting at cb: row cb - i holds the forward costs of node i
DistanceMatrixInit(kind, input, b, e, R, cb) ==
    [r \in 0 .. R |-> [c \in 0 .. R - 1 |->
        LET i == cb - r
            j == i + c + 1
        IN  IF r >= 1 /\ i >= search_range(cb, b, e, R)[1]
               /\ j < search_range(i, b, e, R)[2]
            THEN Cost(kind, input, i, j)
            ELSE 0]]

\* the scan "if (distance < best_distance) { best_distance = ...; }" over the
\* candidates <<j, distance>> in the order they are met
\* mutant: "distance <= best_distance", a tie keeps the candidate met last
RECURSIVE ScanBest_keeps_last_on_ties(_, _, _)
ScanBest_keeps_last_on_ties(cands, best_distance, best_neighbor) ==
    IF cands = <<>> THEN best_neighbor
    ELSE LET c == Head(cands)
         IN  IF c[2] <= best_distance
             THEN ScanBest_keeps_last_on_ties(Tail(cands), c[2], c[1])
             ELSE ScanBest_keeps_last_on_ties(Tail(cands), best_distance,
                                              best_neighbor)
RECURSIVE ScanBest(_, _, _)
ScanBest(cands, best_distance, best_neighbor) ==
    IF cands = <<>> THEN best_neighbor
    ELSE LET c == Head(cands)
         IN  IF c[2] < best_distance
             THEN ScanBest(Tail(cands), c[2], c[1])
             ELSE ScanBest(Tail(cands), best_distance, best_neighbor)

\* mutant: the rows of the distance matrix are not rotated after a node
Rotate_not_done(dm, R) == dm
\* "Rotate the distance matrix columns": row r becomes row r + 1, the last
\* row becomes row 0
Rotate(dm, R) == [r \in 0 .. R |-> IF r = 0 THEN dm[R] ELSE dm[r - 1]]

\* one iteration of the nearest neighbor search: the neighbor chosen for i
\* and the distance matrix after the forward search and the rotation
SearchNode(kind, input, b, e, R, i, dm) ==
    LET sb == search_range(i, b, e, R)[1]
        se == search_range(i, b, e, R)[2]
        backward == [n \in 1 .. (i - sb) |->
                        LET j == sb + n - 1 IN <<j, dm[i - j][i - j - 1]>>]
        forward == [n \in 1 .. (se - i - 1) |->
                        LET j == i + n IN <<j, Cost(kind, input, i, j)>>]
        row0 == [c \in 0 .. R - 1 |->
                    IF i + c + 1 < se THEN Cost(kind, input, i, i + c + 1)
                    ELSE dm[0][c]]
        dm1 == [dm EXCEPT ![0] = row0]
    IN  [best |-> ScanBest(backward \o forward, ScalarMax, NoNeighbor),
         dm |-> Rotate(dm1, R)]

RECURSIVE SearchLoop(_, _, _, _, _, _, _, _)
SearchLoop(kind, input, b, e, R, i, ce, dm) ==
    IF i >= ce THEN <<>>
    ELSE CHOOSE found \in
             {(i :> s.best) @@ SearchLoop(kind, input, b, e, R, i + 1, ce, s.dm) :
                 s \in {SearchNode(kind, input, b, e, R, i, dm)}} : TRUE

\* the neighbors[] entries thread t of T computes: a function on its chunk
nearest_neighbor_search(kind, input, b, e, R, T, t) ==
    SearchLoop(kind, input, b, e, R, chunk_begin(b, e, T, t),
               chunk_end(b, e, T, t),
               DistanceMatrixInit(kind, input, b, e, R, chunk_begin(b, e, T, t)))

\* mutant: both members of a mutual pair are flagged
MergeFlag_both_members(nb, i) ==
    LET j == nb[i] IN IF nb[j] = i THEN 1 ELSE 0
\* merged_index[i] before the prefix sum
MergeFlag(nb, i) ==
    LET j == nb[i] IN IF i < j /\ nb[j] = i THEN 1 ELSE 0

\* PrefixSum::sum_in_parallel over [b, e): inclusive running totals
RECURSIVE RunningTotal(_, _, _)
RunningTotal(mi, b, x) ==
    IF x < b THEN 0 ELSE mi[x] + RunningTotal(mi, b, x - 1)
sum_in_parallel(mi, b, e) ==
    [x \in DOMAIN mi |->
        IF x >= b /\ x < e THEN RunningTotal(mi, b, x) ELSE mi[x]]

\* the ranges every thread derives from the summed merged_index
merged_count(mi, b, e) == mi[e - 1]
\* mutant: the survivors counted without the new parents
unmerged_count_without_parents(mi, b, e) ==
    e - b - 2 * merged_count(mi, b, e)
unmerged_count(mi, b, e) == e - b - merged_count(mi, b, e)
\* mutant: one child slot counted per pair
children_count_one_per_pair(mi, b, e) == merged_count(mi, b, e)
children_count(mi, b, e) == merged_count(mi, b, e) * 2
children_begin(mi, b, e) == e - children_count(mi, b, e)
\* mutant: the next window is written from the start of the window on
unmerged_begin_at_begin(mi, b, e) == b
unmerged_begin(mi, b, e) ==
    e - (children_count(mi, b, e) + unmerged_count(mi, b, e))

\* mutant: the slot is not moved down by the pairs counted up to x
UnmergedSlot_without_merged_index(mi, b, e, x) ==
    unmerged_begin(mi, b, e) + x - b
\* output slot of node x of the window when it stays in the next window
\* (as a survivor, or as the place its parent is written to)
UnmergedSlot(mi, b, e, x) == unmerged_begin(mi, b, e) + x - b - mi[x]
\* mutant: one slot per pair instead of two
FirstChild_one_slot_per_pair(mi, b, e, i) ==
    children_begin(mi, b, e) + (mi[i] - 1)
\* mutant: the inclusive count of i is used as its zero-based pair rank
FirstChild_rank_from_one(mi, b, e, i) ==
    children_begin(mi, b, e) + mi[i] * 2
FirstChild(mi, b, e, i) == children_begin(mi, b, e) + (mi[i] - 1) * 2

\* mutant: the parent keeps the volume of j, not extended by i
ParentVolume_not_extended(kind, input, i, j) == input[j].vol
\* the volume written into a new parent of i and j
ParentVolume(kind, input, i, j) ==
    IF kind = "box" THEN BoxExtend(input[j].vol, input[i].vol)
    ELSE CylExtend(input[j].vol, input[i].vol)

\* iteration i of the compaction loop: the output array after it
CompactWrite(kind, input, output, nb, mi, b, e, i) ==
    LET j == nb[i]
    IN  IF nb[j] = i
        THEN IF i < j
             THEN LET slot == UnmergedSlot(mi, b, e, j)
                      first_child == FirstChild(mi, b, e, i)
                      o1 == [output EXCEPT
                               ![slot].vol = ParentVolume(kind, input, i, j),
                               ![slot].is_leaf = FALSE,
                               ![slot].first_child_or_primitive = first_child]
                      o2 == [o1 EXCEPT ![first_child] = input[i]]
                  IN  [o2 EXCEPT ![first_child + 1] = input[j]]
             ELSE output
        ELSE [output EXCEPT ![UnmergedSlot(mi, b, e, i)] = input[i]]

\* the output slots iteration i of the compaction loop writes to, as a bag
CompactSlots(nb, mi, b, e, i) ==
    LET j == nb[i]
    IN  IF nb[j] = i
        THEN IF i < j
             THEN SetToBag({UnmergedSlot(mi, b, e, j)})
                  (+) SetToBag({FirstChild(mi, b, e, i)})
                  (+) SetToBag({FirstChild(mi, b, e, i) + 1})
             ELSE EmptyBag
        ELSE SetToBag({UnmergedSlot(mi, b, e, i)})

\* mutant: the copy reads the output buffer instead of the input buffer
CopyWrite_from_output(input, output, i) == [output EXCEPT ![i] = output[i]]
\* iteration i of the loop that copies the previous level
CopyWrite(input, output, i) == [output EXCEPT ![i] = input[i]]

\* ------------------------------------------------------------------ state
VARIABLES
    pc,                     \* where the build call stands
    variant,                \* "box", "cyl" or "hybrid": the overload called
    primitive_count, search_radius, loop_parallel_threshold, iteration,
    thread_count,           \* threads of a parallel region that is active
    bboxes,                 \* the caller's volumes, in the caller's order
    primitive_indices,      \* the permutation the sort returned
    nodes, nodes_copy,      \* the two buffers of the first arena
    bnodes, bnodes_copy,    \* the two buffers of the box arena (hybrid)
    neighbors, merged_index,\* auxiliary_data
    begin, end, previous_end, k,
    handed_off,             \* hybrid: the box loop has been entered
    num_threads,            \* threads of the current parallel region
    searched,               \* threads that finished their search chunk
    flagged, compacted, copied, \* loop iterations already executed
    single_done, next_begin, next_end,
    bvh,                    \* the Bvh the builder publishes into
    rounds,                 \* history: cluster() calls completed
    frontier,               \* history: the window at the hand-off
    output0,                \* history: the output buffer at round start
    builds,                 \* history: build calls made on the Bvh so far
    written                 \* history: bag of the output slots written in
                            \* the running round

vars == <<pc, variant, primitive_count, search_radius, loop_parallel_threshold,
          iteration, thread_count, bboxes, primitive_indices, nodes,
          nodes_copy, bnodes, bnodes_copy, neighbors, merged_index, begin,
          end, previous_end, k, handed_off, num_threads, searched, flagged,
          compacted, copied, single_done, next_begin, next_end, bvh, rounds,
          frontier, output0, builds, written>>

config == <<variant, primitive_count, search_radius, loop_parallel_threshold,
            iteration, thread_count, bboxes, primitive_indices, builds>>
roundvars == <<searched, flagged, compacted, copied, single_done>>

Window == begin .. end - 1
Threads == 0 .. num_threads - 1
\* mutant: the copy loop starts at begin and runs over the window as well
CopyRange_from_begin == begin .. previous_end - 1
CopyRange == end .. previous_end - 1
node_count == 2 * primitive_count - 1

\* the node type the running cluster() overload works on
Kind == IF variant = "box" \/ handed_off THEN "box" ELSE "cyl"
\* the buffers the running cluster() call was handed
Input == IF handed_off THEN bnodes ELSE nodes
Output == IF handed_off THEN bnodes_copy ELSE nodes_copy

\* a Bvh as constructed
EmptyBvh ==
    [nodes |-> <<>>, cnodes |-> <<>>, primitive_indices |-> <<>>,
     node_count |-> 0]

Init ==
    /\ pc = "idle"
    /\ variant = "none"
    /\ primitive_count = 0 /\ search_radius = 0
    /\ loop_parallel_threshold = 0 /\ iteration = 0 /\ thread_count = 1
    /\ bboxes = <<>> /\ primitive_indices = <<>>
    /\ nodes = <<>> /\ nodes_copy = <<>>
    /\ bnodes = <<>> /\ bnodes_copy = <<>>
    /\ neighbors = <<>> /\ merged_index = <<>>
    /\ begin = 0 /\ end = 0 /\ previous_end = 0 /\ k = 0
    /\ handed_off = FALSE
    /\ num_threads = 1
    /\ searched = {} /\ flagged = {} /\ compacted = {} /\ copied = {}
    /\ single_done = FALSE /\ next_begin = 0 /\ next_end = 0
    /\ bvh = EmptyBvh
    /\ rounds = 0 /\ frontier = <<0, 0>> /\ output0 = <<>>
    /\ builds = 0
    /\ written = EmptyBag

\* ------------------------------------------------------------ build loops
\* "#pragma omp parallel if (end - begin > loop_parallel_threshold)"
RegionThreads(b, e, thr, T) == IF e - b > thr THEN T ELSE 1

\* mutant: the loop is entered with a window of one node
LoopTest_enters_with_one_node(b, e, after) ==
    IF e - b >= 1 THEN "search" ELSE after
\* "while (end - begin > 1)": the next position of a loop over [b, e)
LoopTest(b, e, after) == IF e - b > 1 THEN "search" ELSE after

\* mutant: the leaf stores the primitive's index instead of its rank
Leaf_stores_primitive_index(v, boxes, perm, i) ==
    IF v = "box"
    THEN [vol |-> boxes[perm[i]], is_leaf |-> TRUE, primitive_count |-> 1,
          first_child_or_primitive |-> perm[i], origin |-> 0]
    ELSE [vol |-> boxes[perm[i]], is_leaf |-> TRUE, primitive_count |-> 1,
          first_child_or_primitive |-> perm[i]]
\* the leaf written for the primitive of rank i
Leaf(v, boxes, perm, i) ==
    IF v = "box"
    THEN [vol |-> boxes[perm[i]], is_leaf |-> TRUE, primitive_count |-> 1,
          first_child_or_primitive |-> i, origin |-> 0]
    ELSE [vol |-> boxes[perm[i]], is_leaf |-> TRUE, primitive_count |-> 1,
          first_child_or_primitive |-> i]

\* the first buffer after "Create the leaves"
CreateLeaves(v, boxes, perm, P) ==
    [x \in 0 .. 2 * P - 2 |->
        IF x >= P - 1 THEN Leaf(v, boxes, perm, x - (P - 1))
        ELSE IF v = "box" THEN ZeroNode ELSE ZeroCustomNode]

ZeroArray(v, P) ==
    [x \in 0 .. 2 * P - 2 |-> IF v = "box" THEN ZeroNode ELSE ZeroCustomNode]

\* build(): from the call to the first test of the round loop; the arrays,
\* the window and the counters are locals of the call
BuildCall(v, P, R, thr, T, it, xs, cs) ==
    /\ variant' = v
    /\ primitive_count' = P
    /\ search_radius' = R
    /\ loop_parallel_threshold' = thr
    /\ thread_count' = T
    /\ iteration' = it
    /\ bboxes' = [i \in 0 .. P - 1 |->
                    IF v = "box" THEN UnitBox(xs[i]) ELSE UnitCyl(xs[i])]
    /\ primitive_indices' = sort_primitives_by_morton_code(cs)
    /\ nodes' = CreateLeaves(v, bboxes', primitive_indices', P)
    /\ nodes_copy' = ZeroArray(v, P)
    /\ output0' = nodes_copy'
    /\ bnodes' = <<>> /\ bnodes_copy' = <<>>
    /\ handed_off' = FALSE /\ frontier' = <<0, 0>>
    /\ neighbors' = [x \in 0 .. 2 * P - 2 |-> 0]
    /\ merged_index' = [x \in 0 .. 2 * P - 2 |-> 0]
    /\ begin' = (2 * P - 1) - P
    /\ end' = 2 * P - 1
    /\ previous_end' = 2 * P - 1
    /\ next_begin' = 0 /\ next_end' = 0
    /\ k' = 0
    /\ rounds' = 0
    /\ searched' = {} /\ flagged' = {} /\ compacted' = {} /\ copied' = {}
    /\ single_done' = FALSE /\ written' = EmptyBag
    /\ num_threads' = RegionThreads(begin', end', thr, T)
    /\ pc' = LoopTest(begin', end', IF v = "hybrid" THEN "handoff" ELSE "publish")
    /\ UNCHANGED bvh

\* the first build call on a constructed Bvh
BuildBegin(v, P, R, thr, T, it, xs, cs) ==
    /\ pc = "idle"
    /\ builds' = 1
    /\ BuildCall(v, P, R, thr, T, it, xs, cs)

\* a later build call of the same builder on the same Bvh: search_radius and
\* loop_parallel_threshold are members of the builder and keep their values
BuildAgain(v, P, it, xs, cs) ==
    /\ pc = "done"
    /\ builds < MaxBuilds
    /\ builds' = builds + 1
    /\ BuildCall(v, P, search_radius, loop_parallel_threshold, thread_count,
                 it, xs, cs)

\* --------------------------------------------- cluster(): the four phases
\* mutant: no barrier, the first thread to finish its chunk goes on
Barrier_released_by_first(arrived, team) ==
    IF arrived # {} THEN "flags" ELSE "search"
\* "#pragma omp barrier" after the search: where the region stands once the
\* threads in arrived have reached it
Barrier(arrived, team) == IF arrived = team THEN "flags" ELSE "search"

\* Phase 1, thread t: the nearest neighbor search of its chunk, up to the
\* barrier.  The last thread to arrive releases the barrier.
SearchStep(t) ==
    /\ pc = "search"
    /\ t \in Threads \ searched
    /\ \E found \in {nearest_neighbor_search(Kind, Input, begin, end,
                                               search_radius, num_threads, t)} :
           IF \E i \in DOMAIN found : found[i] = NoNeighbor
           THEN \* assert(best_neighbor != size_t(-1))
                /\ pc' = "assert_failed"
                /\ UNCHANGED <<neighbors, searched>>
           ELSE /\ neighbors' = [x \in DOMAIN neighbors |->
                                    IF x \in DOMAIN found THEN found[x]
                                    ELSE neighbors[x]]
                /\ searched' = searched \cup {t}
                /\ pc' = Barrier(searched', Threads)
    /\ UNCHANGED <<config, nodes, nodes_copy, bnodes, bnodes_copy,
                   merged_index, begin, end, previous_end, k, handed_off,
                   num_threads, flagged, compacted, copied, single_done,
                   next_begin, next_end, bvh, rounds, frontier, output0,
                   written>>

\* the iteration a loop executes next: any one left when the region is
\* parallel, the lowest one left when a single thread runs it
MayRun(i, todo) ==
    /\ i \in todo
    /\ num_threads = 1 => \A x \in todo : i <= x

\* Phase 2, iteration i of "#pragma omp for": the merge flag of node i
FlagStep(i) ==
    /\ pc = "flags"
    /\ MayRun(i, Window \ flagged)
    /\ merged_index' = [merged_index EXCEPT ![i] = MergeFlag(neighbors, i)]
    /\ flagged' = flagged \cup {i}
    /\ UNCHANGED <<pc, config, nodes, nodes_copy, bnodes, bnodes_copy,
                   neighbors, begin, end, previous_end, k, handed_off,
                   num_threads, searched, compacted, copied, single_done,
                   next_begin, next_end, bvh, rounds, frontier, output0,
                   written>>

\* the prefix sum, entered once the flag loop's barrier is passed
PrefixSumStep ==
    /\ pc = "flags"
    /\ flagged = Window
    /\ merged_index' = sum_in_parallel(merged_index, begin, end)
    /\ pc' = "write"
    /\ UNCHANGED <<config, nodes, nodes_copy, bnodes, bnodes_copy,
                   neighbors, begin, end, previous_end, k, handed_off,
                   num_threads, roundvars, next_begin, next_end, bvh, rounds,
                   frontier, output0, written>>

\* "#pragma omp single nowait": one thread stores the next window
SingleStep ==
    /\ pc = "write"
    /\ ~single_done
    /\ next_begin' = unmerged_begin(merged_index, begin, end)
    /\ next_end' = children_begin(merged_index, begin, end)
    /\ single_done' = TRUE
    /\ UNCHANGED <<pc, config, nodes, nodes_copy, bnodes, bnodes_copy,
                   neighbors, merged_index, begin, end, previous_end, k,
                   handed_off, num_threads, searched, flagged, compacted,
                   copied, bvh, rounds, frontier, output0, written>>

\* the output buffer of the running call becomes out
WriteOutput(out) ==
    IF handed_off
    THEN bnodes_copy' = out /\ UNCHANGED nodes_copy
    ELSE nodes_copy' = out /\ UNCHANGED bnodes_copy

\* Phase 3, iteration i of the compaction loop
CompactStep(i) ==
    /\ pc = "write"
    /\ num_threads = 1 => single_done
    /\ MayRun(i, Window \ compacted)
    /\ WriteOutput(CompactWrite(Kind, Input, Output, neighbors, merged_index,
                                begin, end, i))
    /\ compacted' = compacted \cup {i}
    /\ written' = written (+) CompactSlots(neighbors, merged_index, begin,
                                            end, i)
    /\ UNCHANGED <<pc, config, nodes, bnodes, neighbors, merged_index, begin,
                   end, previous_end, k, handed_off, num_threads, searched,
                   flagged, copied, single_done, next_begin, next_end, bvh,
                   rounds, frontier, output0>>

\* Phase 4, iteration i of the loop copying [end, previous_end)
CopyStep(i) ==
    /\ pc = "write"
    /\ num_threads = 1 => single_done /\ compacted = Window
    /\ MayRun(i, CopyRange \ copied)
    /\ WriteOutput(CopyWrite(Input, Output, i))
    /\ copied' = copied \cup {i}
    /\ written' = written (+) SetToBag({i})
    /\ UNCHANGED <<pc, config, nodes, bnodes, neighbors, merged_index, begin,
                   end, previous_end, k, handed_off, num_threads, searched,
                   flagged, compacted, single_done, next_begin, next_end, bvh,
                   rounds, frontier, output0>>

\* where a build goes after a round that left the window [b, e)
AfterRound(v, handed, kk, it, b, e) ==
    IF v = "hybrid" /\ ~handed
    THEN IF kk = it THEN "handoff" ELSE LoopTest(b, e, "handoff")
    ELSE LoopTest(b, e, "publish")

\* the end of the parallel region, the return of cluster(), and the rest of
\* the loop body: swap of the buffers, new window, "k++; if (k == iteration)"
RoundEnd ==
    /\ pc = "write"
    /\ single_done /\ compacted = Window /\ copied = CopyRange
    /\ IF handed_off
       THEN /\ bnodes' = bnodes_copy /\ bnodes_copy' = bnodes
            /\ UNCHANGED <<nodes, nodes_copy>>
       ELSE /\ nodes' = nodes_copy /\ nodes_copy' = nodes
            /\ UNCHANGED <<bnodes, bnodes_copy>>
    /\ output0' = Input
    /\ previous_end' = end
    /\ begin' = next_begin
    /\ end' = next_end
    /\ k' = IF variant = "hybrid" /\ ~handed_off THEN k + 1 ELSE k
    /\ rounds' = rounds + 1
    /\ pc' = AfterRound(variant, handed_off, k', iteration, begin', end')
    /\ num_threads' = RegionThreads(begin', end', loop_parallel_threshold,
                                    thread_count)
    /\ searched' = {} /\ flagged' = {} /\ compacted' = {} /\ copied' = {}
    /\ single_done' = FALSE /\ written' = EmptyBag
    /\ UNCHANGED <<config, neighbors, merged_index, handed_off, next_begin,
                   next_end, bvh, frontier>>

\* the box node made from the cylinder node i at the hand-off
BoxFromCylinder(cn, i, b, e) ==
    [vol |-> AABB(cn.vol),
     is_leaf |-> IF i >= b /\ i < e THEN TRUE ELSE cn.is_leaf,
     primitive_count |-> cn.primitive_count,
     first_child_or_primitive |-> cn.first_child_or_primitive,
     origin |-> i]

\* "make an AABB from every cylinder": the first box buffer
ConvertNodes(cnodes, P, b, e) ==
    [x \in 0 .. 2 * P - 2 |->
        IF x < P THEN BoxFromCylinder(cnodes[x], x, b, e) ELSE ZeroNode]

\* hybrid build: allocation of the box arena and conversion of the cylinders
HandOff ==
    /\ pc = "handoff"
    /\ bnodes' = ConvertNodes(nodes, primitive_count, begin, end)
    /\ bnodes_copy' = ZeroArray("box", primitive_count)
    /\ output0' = bnodes_copy'
    /\ handed_off' = TRUE
    /\ frontier' = <<begin, end>>
    /\ pc' = LoopTest(begin, end, "publish")
    /\ num_threads' = RegionThreads(begin, end, loop_parallel_threshold,
                                    thread_count)
    /\ UNCHANGED <<config, nodes, nodes_copy, neighbors, merged_index, begin,
                   end, previous_end, k, roundvars, next_begin, next_end, bvh,
                   rounds, written>>

\* the Bvh after the swaps that end build()
Published(v, tree, first, second, perm, P) ==
    IF v = "box"
    THEN [tree EXCEPT !.nodes = first, !.primitive_indices = perm,
                      !.node_count = 2 * P - 1]
    ELSE IF v = "cyl"
    THEN [tree EXCEPT !.cnodes = first, !.primitive_indices = perm,
                      !.node_count = 2 * P - 1]
    ELSE [tree EXCEPT !.nodes = second, !.cnodes = first,
                      !.primitive_indices = perm, !.node_count = 2 * P - 1]

Publish ==
    /\ pc = "publish"
    /\ bvh' = Published(variant, bvh, nodes, bnodes, primitive_indices,
                        primitive_count)
    /\ pc' = "done"
    /\ UNCHANGED <<config, nodes, nodes_copy, bnodes, bnodes_copy, neighbors,
                   merged_index, begin, end, previous_end, k, handed_off,
                   num_threads, roundvars, next_begin, next_end, rounds,
                   frontier, output0, written>>

\* ------------------------------------------------------------ the inputs
Variants == {"box", "cyl", "hybrid"}
Iterations(v) == IF v = "hybrid" THEN 0 .. MaxIteration ELSE {0}
\* <<threads of an active parallel region, loop_parallel_threshold>>
\* (a threshold of 2 keeps the rounds on windows of two nodes sequential)
ParallelConfigs ==
    ((1 .. MaxThreads) \X {0}) \cup {<<MaxThreads, 2>>}

Next ==
    \/ /\ pc = "idle"
       /\ \E v \in Variants, P \in 1 .. MaxPrimitives, R \in 0 .. MaxRadius,
             par \in ParallelConfigs :
             \E it \in Iterations(v), xs \in [0 .. P - 1 -> Positions],
                cs \in CenterInputs(P) :
                BuildBegin(v, P, R, par[2], par[1], it, xs, cs)
    \/ \E t \in 0 .. MaxThreads - 1 : SearchStep(t)
    \/ \E i \in 0 .. 2 * MaxPrimitives - 2 : FlagStep(i)
    \/ PrefixSumStep
    \/ SingleStep
    \/ \E i \in 0 .. 2 * MaxPrimitives - 2 : CompactStep(i)
    \/ \E i \in 0 .. 2 * MaxPrimitives - 2 : CopyStep(i)
    \/ RoundEnd
    \/ HandOff
    \/ Publish

Spec == Init /\ [][Next]_vars

\* ------------------------------------------------------- published trees
\* the array a finished non-hybrid build published
Tree == IF variant = "box" THEN bvh.nodes ELSE bvh.cnodes
NonHybridDone == pc = "done" /\ variant \in {"box", "cyl"}
Slots == 0 .. 2 * primitive_count - 2

\* the slots met by following child links from p, parents first
RECURSIVE Visit(_, _, _)
Visit(a, p, fuel) ==
    LET c == a[p].first_child_or_primitive
    IN  IF a[p].is_leaf \/ fuel = 0 \/ c + 1 \notin DOMAIN a THEN <<p>>
        ELSE <<p>> \o Visit(a, c, fuel - 1) \o Visit(a, c + 1, fuel - 1)
Range(sq) == {sq[n] : n \in DOMAIN sq}
NoRepeats(sq) == Cardinality(Range(sq)) = Len(sq)
\* the internal nodes of a that name q as one of their two children
ParentsOf(a, q) ==
    {p \in DOMAIN a : /\ ~a[p].is_leaf
                      /\ q \in {a[p].first_child_or_primitive,
                                a[p].first_child_or_primitive + 1}}

\* ------------------------------------------------------------------ C1
\* C1: when a non-hybrid build has returned, bvh.node_count is 2P-1, the
\* active window is exactly [0,1) and the published array has 2P-1 slots,
\* slot 0 included: the root is the node at index 0.
C1_NodeCountAndRoot ==
    NonHybridDone =>
        /\ bvh.node_count = 2 * primitive_count - 1
        /\ begin = 0 /\ end = 1
        /\ DOMAIN Tree = 0 .. bvh.node_count - 1
        /\ Tree = nodes

C1_Witness ==
    /\ NonHybridDone /\ primitive_count >= 3 /\ rounds >= 2
    /\ bvh.node_count = 2 * primitive_count - 1 /\ begin = 0 /\ end = 1

\* ------------------------------------------------------------------ C2
\* C2: in the tree of a finished non-hybrid build every internal node p has
\* a child index c with p < c and c+1 <= 2P-2, every slot but the root is
\* the child of exactly one internal node, and the walk from slot 0 along
\* the child links meets each of the 2P-1 slots exactly once.
C2_ChildrenContiguousAndCover ==
    NonHybridDone =>
        /\ \A p \in Slots :
              ~Tree[p].is_leaf =>
                 /\ p < Tree[p].first_child_or_primitive
                 /\ Tree[p].first_child_or_primitive + 1
                        <= 2 * primitive_count - 2
        /\ ParentsOf(Tree, 0) = {}
        /\ \A q \in Slots \ {0} : Cardinality(ParentsOf(Tree, q)) = 1
        /\ LET walk == Visit(Tree, 0, 2 * primitive_count)
           IN  Range(walk) = Slots /\ NoRepeats(walk)

C2_Witness ==
    /\ NonHybridDone /\ primitive_count = 4
    /\ ~Tree[0].is_leaf /\ ~Tree[1].is_leaf /\ ~Tree[2].is_leaf
    /\ Range(Visit(Tree, 0, 8)) = 0 .. 6

\* ------------------------------------------------------------------ C3
\* the leaves of a, in the order the walk from the root meets them
LeavesOf(a) ==
    SelectSeq(Visit(a, 0, 2 * primitive_count), LAMBDA p : a[p].is_leaf)

\* C3: before the first round the slots P-1 .. 2P-2 hold the leaves, leaf k
\* with is_leaf, primitive_count 1 and first_child_or_primitive k; in the
\* tree of a finished non-hybrid build the leaves reached from the root are
\* P in number and carry the values 0 .. P-1 once each, which are the
\* positions of the primitive-index permutation.
C3_LeavesSeededAndCovered ==
    /\ (rounds = 0 /\ ~handed_off
            /\ pc \in {"search", "flags", "write", "publish", "handoff"}) =>
          \A kk \in 0 .. primitive_count - 1 :
             LET n == nodes[primitive_count - 1 + kk]
             IN  /\ n.is_leaf /\ n.primitive_count = 1
                 /\ n.first_child_or_primitive = kk
                 /\ n.vol = bboxes[primitive_indices[kk]]
    /\ NonHybridDone =>
          LET leaves == LeavesOf(Tree)
          IN  /\ Len(leaves) = primitive_count
              /\ {Tree[leaves[n]].first_child_or_primitive :
                     n \in DOMAIN leaves} = 0 .. primitive_count - 1
              /\ \A n \in DOMAIN leaves : Tree[leaves[n]].primitive_count = 1
              /\ DOMAIN bvh.primitive_indices = 0 .. primitive_count - 1
              /\ {bvh.primitive_indices[r] : r \in 0 .. primitive_count - 1}
                     = 0 .. primitive_count - 1

C3_Witness ==
    /\ NonHybridDone /\ primitive_count = 3
    /\ Len(LeavesOf(Tree)) = 3
    /\ bvh.primitive_indices # [r \in 0 .. 2 |-> r]

\* ------------------------------------------------------------------ C4
\* the union of two volumes of the running node type
UnionOf(kind, a, b) ==
    IF kind = "box" THEN BoxExtend(a, b) ELSE CylExtend(a, b)
\* a has, at p, a node whose volume is the union of the volumes of the two
\* nodes at its child index and the slot after it
VolumeIsUnionOfChildren(kind, a, p) ==
    LET c == a[p].first_child_or_primitive
    IN  a[p].vol = UnionOf(kind, a[c].vol, a[c + 1].vol)
\* the slots of the current buffer that hold the tree built so far
BuiltSlots ==
    begin .. (IF handed_off THEN frontier[2] ELSE 2 * primitive_count - 1) - 1
\* the nodes of the built part that a round created as parents (the box
\* arena of a hybrid build holds zeroed slots, whose child index is 0)
IsParent(a, p) ==
    /\ ~a[p].is_leaf
    /\ handed_off => a[p].first_child_or_primitive > p

FairSpec == Spec /\ WF_vars(Next)

NonHybridRunning ==
    /\ variant \in {"box", "cyl"} /\ search_radius >= 1
    /\ pc \in {"search", "flags", "write", "publish"}

\* C5: with search_radius >= 1, a round (always run on a window of at least
\* two nodes) finds a neighbor for every node, merges at least one mutually
\* nearest pair and so returns a strictly smaller,
\* non-empty window; no build runs more than P-1 rounds; and a non-hybrid
\* build that was started ends, with a window of exactly one node.
C5_RoundsShrinkAndBuildEnds ==
    /\ [](/\ pc \in {"search", "flags", "write"} => end - begin >= 2
          /\ search_radius >= 1 => pc # "assert_failed"
          /\ (pc = "write" /\ search_radius >= 1) =>
                /\ merged_count(merged_index, begin, end) >= 1
                /\ LET nb == unmerged_begin(merged_index, begin, end)
                       ne == children_begin(merged_index, begin, end)
                   IN  ne - nb < end - begin /\ ne - nb >= 1
          /\ pc # "idle" => rounds <= primitive_count - 1
          /\ (pc \in {"search", "flags", "write"} /\ search_radius >= 1) =>
                rounds < primitive_count - 1)
    /\ [][pc = "write" /\ pc' # "write" =>
             /\ end' - begin' < end - begin
             /\ rounds' = rounds + 1]_vars
    /\ (NonHybridRunning ~> (pc = "done" /\ end - begin = 1))

C5_Witness ==
    /\ pc = "done" /\ variant = "box" /\ search_radius = 1
    /\ primitive_count = 4 /\ rounds = 3 /\ end - begin = 1

\* ------------------------------------------------------------------ C6
\* cluster() run by one thread: the compaction and the copy loop in order
RECURSIVE CompactFrom(_, _, _, _, _, _, _, _)
CompactFrom(kind, input, out, nb, mi, b, e, i) ==
    IF i >= e THEN out
    ELSE CompactFrom(kind, input,
                     CompactWrite(kind, input, out, nb, mi, b, e, i),
                     nb, mi, b, e, i + 1)
RECURSIVE CopyFrom(_, _, _, _)
CopyFrom(input, out, i, pe) ==
    IF i >= pe THEN out
    ELSE CopyFrom(input, CopyWrite(input, out, i), i + 1, pe)
ClusterSeq(kind, input, out, b, e, pe, R) ==
    LET nb == nearest_neighbor_search(kind, input, b, e, R, 1, 0)
        mi == sum_in_parallel([x \in b .. e - 1 |-> MergeFlag(nb, x)], b, e)
    IN  IF \E x \in b .. e - 1 : nb[x] = NoNeighbor
        THEN [asserted |-> TRUE, output |-> out, next_begin |-> b,
              next_end |-> e]
        ELSE [asserted |-> FALSE,
              output |-> CopyFrom(input,
                           CompactFrom(kind, input, out, nb, mi, b, e, b),
                           e, pe),
              next_begin |-> unmerged_begin(mi, b, e),
              next_end |-> children_begin(mi, b, e)]

\* the round loop of a non-hybrid build run by one thread: the final buffer
\* and the number of rounds (asserted: the build stopped on the assertion)
RECURSIVE SeqBuild(_, _, _, _, _, _, _, _)
SeqBuild(kind, a, a_copy, b, e, pe, R, n) ==
    IF e - b > 1 /\ n < Cardinality(DOMAIN a)
    THEN LET r == ClusterSeq(kind, a, a_copy, b, e, pe, R)
         IN  IF r.asserted
             THEN [asserted |-> TRUE, tree |-> a, rounds |-> n]
             ELSE SeqBuild(kind, r.output, a, r.next_begin, r.next_end, e, R,
                           n + 1)
    ELSE [asserted |-> FALSE, tree |-> a, rounds |-> n]

RoundComplete ==
    pc = "write" /\ single_done /\ compacted = Window /\ copied = CopyRange

\* C6: whatever the thread count and the order in which the threads run
\* their iterations, a finished round has written the output array and the
\* next window that one thread running the round alone writes; and a
\* finished non-hybrid build has published the tree that the one-thread
\* build of the same input publishes.
C6_ThreadCountIndependent ==
    /\ RoundComplete =>
          LET ref == ClusterSeq(Kind, Input, output0, begin, end,
                                previous_end, search_radius)
          IN  /\ ~ref.asserted
              /\ Output = ref.output
              /\ next_begin = ref.next_begin
              /\ next_end = ref.next_end
    /\ NonHybridDone =>
          LET ref == SeqBuild(Kind,
                              CreateLeaves(variant, bboxes, primitive_indices,
                                           primitive_count),
                              ZeroArray(variant, primitive_count),
                              primitive_count - 1, 2 * primitive_count - 1,
                              2 * primitive_count - 1, search_radius, 0)
          IN  ~ref.asserted /\ Tree = ref.tree /\ rounds = ref.rounds

C6_Witness ==
    /\ RoundComplete /\ num_threads = 3 /\ end - begin = 2
    /\ rounds >= 1 /\ search_radius = 2
    /\ Output = ClusterSeq(Kind, Input, output0, begin, end, previous_end,
                           search_radius).output

\* ------------------------------------------------------------------ C7
HybridStarted == variant = "hybrid" /\ pc # "idle"
\* the leaves the box build creates for the AABBs of the input cylinders
AABBLeaves ==
    CreateLeaves("box", [i \in DOMAIN bboxes |-> AABB(bboxes[i])],
                 primitive_indices, primitive_count)
\* the tree the box build, run by one thread, makes of those leaves
BoxBuildOfAABBs ==
    SeqBuild("box", AABBLeaves, ZeroArray("box", primitive_count),
             primitive_count - 1, 2 * primitive_count - 1,
             2 * primitive_count - 1, search_radius, 0)
\* two box arrays hold slot by slot the same volumes, leaf flags and links
EquivalentTrees(a, b) ==
    /\ DOMAIN a = DOMAIN b
    /\ \A x \in DOMAIN a :
          /\ a[x].vol = b[x].vol
          /\ a[x].is_leaf = b[x].is_leaf
          /\ a[x].first_child_or_primitive = b[x].first_child_or_primitive

\* C7: a hybrid build called with iteration = 0 has run no cylinder round
\* when it hands off, its frontier is the leaf window [P-1, 2P-1), and the
\* box tree it publishes is the one the box build makes of the AABBs of the
\* input cylinders.
C7_IterationZeroIsBoxBuild ==
    (HybridStarted /\ iteration = 0 /\ handed_off) =>
        /\ k = 0
        /\ frontier = <<primitive_count - 1, 2 * primitive_count - 1>>
        /\ pc = "done" =>
              /\ ~BoxBuildOfAABBs.asserted
              /\ EquivalentTrees(bvh.nodes, BoxBuildOfAABBs.tree)

\* ------------------------------------------------------------------ C8
\* rounds a cylinder build of the same input runs to reach a one-node window
RoundsNeeded ==
    SeqBuild("cyl",
             CreateLeaves("cyl", bboxes, primitive_indices, primitive_count),
             ZeroArray("cyl", primitive_count),
             primitive_count - 1, 2 * primitive_count - 1,
             2 * primitive_count - 1, search_radius, 0).rounds

\* C8: at the hand-off of a hybrid build the cylinder phase has run exactly
\* min(iteration, rounds needed to reach a one-node window) rounds.
C8_CylinderRoundsIsMin ==
    (HybridStarted /\ handed_off) => k = Min(iteration, RoundsNeeded)

\* ------------------------------------------------------------------ C9
\* the hand-off is done and no box round has returned yet
BeforeFirstBoxRound == HybridStarted /\ handed_off /\ rounds = k
FrontierSlots == frontier[1] .. frontier[2] - 1
\* the box node at index i was made from the cylinder node at index i
ConvertedAt(b, c, i) ==
    /\ b[i].vol = AABB(c[i].vol)
    /\ b[i].is_leaf
    /\ b[i].origin = i

\* C9: from the hand-off until the first box round returns, every node of
\* the window the cylinder phase left has at its index in the box arena a
\* node with the AABB of its cylinder, is_leaf set and origin its index.
C9_FrontierConverted ==
    BeforeFirstBoxRound =>
        /\ frontier = <<begin, end>>
        /\ \A i \in Window : ConvertedAt(bnodes, nodes, i)

\* ------------------------------------------------------------------ C10
\* the walk from p meets no slot twice and every parent on it points to two
\* slots behind itself
WellFormedFrom(a, p) ==
    LET walk == Visit(a, p, 2 * primitive_count)
    IN  /\ NoRepeats(walk)
        /\ \A n \in DOMAIN walk :
              ~a[walk[n]].is_leaf =>
                 /\ walk[n] < a[walk[n]].first_child_or_primitive
                 /\ a[walk[n]].first_child_or_primitive + 1 \in DOMAIN a
\* the leaves of a met by the walk from p
LeavesFrom(a, p) ==
    SelectSeq(Visit(a, p, 2 * primitive_count), LAMBDA q : a[q].is_leaf)
\* the primitives at the leaves of the cylinder subtree below slot f
PrimitivesBelow(a, f) ==
    {a[q].first_child_or_primitive : q \in Range(LeavesFrom(a, f))}

\* C10: after a finished hybrid build bvh.nodes is a well-formed binary tree
\* rooted at 0, its leaves are the frontier nodes, once each, every leaf's
\* origin being the index of its node in bvh.cnodes and its volume that
\* node's AABB; and bvh.cnodes holds below the frontier nodes well-formed
\* cylinder subtrees that share the P primitives among them.
C10_HybridTreesLinked ==
    (pc = "done" /\ variant = "hybrid") =>
        LET leaves == LeavesFrom(bvh.nodes, 0)
        IN  /\ WellFormedFrom(bvh.nodes, 0)
            /\ Len(leaves) = Cardinality(FrontierSlots)
            /\ {bvh.nodes[leaves[n]].origin : n \in DOMAIN leaves}
                  = FrontierSlots
            /\ \A n \in DOMAIN leaves :
                  bvh.nodes[leaves[n]].vol =
                     AABB(bvh.cnodes[bvh.nodes[leaves[n]].origin].vol)
            /\ \A f \in FrontierSlots : WellFormedFrom(bvh.cnodes, f)
            /\ \A f, g \in FrontierSlots :
                  f # g => PrimitivesBelow(bvh.cnodes, f)
                              \cap PrimitivesBelow(bvh.cnodes, g) = {}
            /\ UNION {PrimitivesBelow(bvh.cnodes, f) : f \in FrontierSlots}
                  = 0 .. primitive_count - 1

\* ------------------------------------------------------------------ C11
\* build calls made one after the other on the same Bvh
Rebuild ==
    /\ pc = "done"
    /\ \E v \in Variants, P \in 1 .. MaxRebuildPrimitives :
          \E it \in Iterations(v), xs \in [0 .. P - 1 -> Positions],
             cs \in CenterInputs(P) :
             BuildAgain(v, P, it, xs, cs)
RebuildNext == Next \/ Rebuild
RebuildSpec == Init /\ [][RebuildNext]_vars

\* the Bvh that holds the result of the call just finished and nothing else
OnlyThisBuild ==
    Published(variant, EmptyBvh, nodes, bnodes, primitive_indices,
              primitive_count)

\* C11: whenever a build call has returned, whatever calls were made on the
\* Bvh before it, nodes, cnodes, primitive_indices and node_count of the
\* Bvh are those of this call alone: an array this call's variant does not
\* produce is empty, not left over from an earlier call.
C11_OnlyLatestBuild ==
    pc = "done" => bvh = OnlyThisBuild

\* ------------------------------------------------------------------ C12
\* the arrays the variant of the running call publishes into the Bvh
PublishedArrays ==
    IF variant = "box" THEN {bvh.nodes}
    ELSE IF variant = "cyl" THEN {bvh.cnodes}
    ELSE {bvh.nodes, bvh.cnodes}
\* a is an array of one node, a leaf holding the primitive of rank 0
SingleLeaf(a) ==
    /\ DOMAIN a = {0}
    /\ a[0].is_leaf
    /\ a[0].primitive_count = 1
    /\ a[0].first_child_or_primitive = 0

\* C12: a build of one primitive, of any variant, never enters a round: its
\* window is [0,1) from the start, no cluster() call and no cylinder round
\* is counted, and when it has returned node_count is 1 and every array it
\* published holds at index 0 a leaf with primitive_count 1 and
\* first_child_or_primitive 0.
C12_SinglePrimitiveNoRound ==
    (primitive_count = 1 /\ pc # "idle") =>
        /\ pc \in {"handoff", "publish", "done"}
        /\ rounds = 0 /\ k = 0
        /\ begin = 0 /\ end = 1
        /\ SingleLeaf(nodes)
        /\ handed_off => SingleLeaf(bnodes)
        /\ pc = "done" =>
              /\ bvh.node_count = 1
              /\ \A a \in PublishedArrays : SingleLeaf(a)

C12_Witness ==
    /\ pc = "done" /\ primitive_count = 1 /\ variant = "hybrid"
    /\ builds = 1 /\ rounds = 0
    /\ SingleLeaf(bvh.nodes) /\ SingleLeaf(bvh.cnodes)

\* ------------------------------------------------------------------ C13
\* four collinear unit boxes at x = 0, 1, 2, 3, their centers in that order
ScenarioPositions == [i \in 0 .. 3 |-> i]
ScenarioBuild ==
    /\ pc = "idle"
    /\ \E par \in ParallelConfigs :
          BuildBegin("box", Cardinality(DOMAIN ScenarioPositions), 1, par[2],
                     par[1], 0, ScenarioPositions, ScenarioPositions)
ScenarioNext ==
    \/ ScenarioBuild
    \/ \E t \in 0 .. MaxThreads - 1 : SearchStep(t)
    \/ \E i \in 0 .. 2 * MaxPrimitives - 2 : FlagStep(i)
    \/ PrefixSumStep
    \/ SingleStep
    \/ \E i \in 0 .. 2 * MaxPrimitives - 2 : CompactStep(i)
    \/ \E i \in 0 .. 2 * MaxPrimitives - 2 : CopyStep(i)
    \/ RoundEnd
    \/ Publish
ScenarioSpec == Init /\ [][ScenarioNext]_vars

\* what a node of the window is: the leaf of a primitive, or a parent with
\* its volume
Describe(n) ==
    IF n.is_leaf THEN <<"leaf", n.first_child_or_primitive>>
    ELSE <<"parent", n.vol>>
\* the pairs the running round merges, once the neighbors are known
MergedPairs ==
    {<<Describe(Input[i]), Describe(Input[neighbors[i]])>> :
        i \in {x \in Window : /\ neighbors[x] \in Window
                              /\ x < neighbors[x]
                              /\ neighbors[neighbors[x]] = x}}
InRound(n) == rounds = n /\ pc = "write"

\* C13 (as stated): in the scenario the first round merges (0,1) and (2,3),
\* the second round merges the two parents into the root, and the build
\* ends after these two rounds with node_count 7.
C13_TwoRoundsAsStated ==
    /\ InRound(0) =>
          MergedPairs = {<<<<"leaf", 0>>, <<"leaf", 1>>>>,
                         <<<<"leaf", 2>>, <<"leaf", 3>>>>}
    /\ InRound(1) =>
          MergedPairs = {<<<<"parent", <<0, 2>>>>, <<"parent", <<2, 4>>>>>>}
    /\ pc = "done" => rounds = 2 /\ bvh.node_count = 7

\* C13 (amended): in the scenario the first round merges (0,1) only (box 2
\* is as near to box 1 as to box 3 and keeps box 1, met first), the second
\* round merges (2,3), the third round merges the two parents into the
\* root, and the build ends after these three rounds with node_count 7.
C13_ThreeRounds ==
    /\ InRound(0) => MergedPairs = {<<<<"leaf", 0>>, <<"leaf", 1>>>>}
    /\ InRound(1) => MergedPairs = {<<<<"leaf", 2>>, <<"leaf", 3>>>>}
    /\ InRound(2) =>
          MergedPairs = {<<<<"parent", <<0, 2>>>>, <<"parent", <<2, 4>>>>>>}
    /\ pc = "done" =>
          /\ rounds = 3 /\ bvh.node_count = 7
          /\ Describe(bvh.nodes[0]) = <<"parent", <<0, 4>>>>

C13_Witness ==
    /\ pc = "done" /\ rounds = 3 /\ bvh.node_count = 7
    /\ bboxes = [i \in 0 .. 3 |-> UnitBox(i)]
    /\ search_radius = 1 /\ thread_count = 3

\* ------------------------------------------------------------------ C14
\* the nodes node i of the window is compared with
Candidates(i) ==
    {x \in Max(begin, i - search_radius)
            .. Min(end, i + search_radius + 1) - 1 : x # i}
\* the search is over: every thread has passed the barrier
Searched == pc \in {"flags", "write"}

\* C14: when the search of a round is over, neighbors[i] of every node i of
\* the window is a node other than i in
\* [max(begin, i-R), min(end, i+R+1)), no node of that range has a smaller
\* merge cost with i, and every node of the range with a lower index has a
\* strictly larger one.
C14_NearestLowestIndexed ==
    Searched =>
        \A i \in Window :
            LET j == neighbors[i]
            IN  /\ j \in Candidates(i)
                /\ \A x \in Candidates(i) :
                      /\ Cost(Kind, Input, i, j) <= Cost(Kind, Input, i, x)
                      /\ x < j =>
                            Cost(Kind, Input, i, j) < Cost(Kind, Input, i, x)

C14_Witness ==
    /\ Searched /\ num_threads >= 2 /\ search_radius = 2
    /\ \E i \in Window :
          /\ i = chunk_begin(begin, end, num_threads, 1)
          /\ neighbors[i] = i - 1 /\ i + 1 < end /\ i - 2 >= begin
          /\ Cost(Kind, Input, i, i - 1) = Cost(Kind, Input, i, i + 1)
          /\ Cost(Kind, Input, i, i - 1) < Cost(Kind, Input, i, i - 2)

\* ------------------------------------------------------------------ C15
\* i and j are each other's nearest neighbor
Mutual(i, j) == neighbors[i] = j /\ neighbors[j] = i
\* the mutual pairs of the window, lower index first
MutualPairs ==
    {p \in Window \X Window : p[1] < p[2] /\ Mutual(p[1], p[2])}
\* the slots of the next window that hold a parent made by this round
NewParents ==
    {p \in next_begin .. next_end - 1 :
        /\ ~Output[p].is_leaf
        /\ Output[p].first_child_or_primitive \in next_end .. end - 1}

\* C15: in the flag loop the flag of a node is 1 exactly when the node is
\* the lower-indexed member of a mutual pair; after the prefix sum
\* merged_index counts the mutual pairs up to each node and merged_count is
\* their number, no node being in two pairs; and a finished round has made
\* one parent per mutual pair, over the two nodes of the pair, and no other.
C15_MergedIffMutual ==
    /\ pc = "flags" =>
          \A i \in flagged :
             merged_index[i] =
                IF \E j \in Window : i < j /\ Mutual(i, j) THEN 1 ELSE 0
    /\ pc = "write" =>
          /\ merged_count(merged_index, begin, end) = Cardinality(MutualPairs)
          /\ \A x \in Window :
                merged_index[x] =
                   Cardinality({p \in MutualPairs : p[1] <= x})
          /\ \A p, q \in MutualPairs :
                p # q => {p[1], p[2]} \cap {q[1], q[2]} = {}
    /\ RoundComplete =>
          /\ Cardinality(NewParents) = Cardinality(MutualPairs)
          /\ \A p \in MutualPairs :
                \E s \in NewParents :
                   LET c == Output[s].first_child_or_primitive
                   IN  Output[c] = Input[p[1]] /\ Output[c + 1] = Input[p[2]]

C15_Witness ==
    /\ RoundComplete /\ end - begin = 4 /\ search_radius = 2
    /\ Cardinality(MutualPairs) = 1 /\ Cardinality(NewParents) = 1
    /\ \E p \in MutualPairs : p[2] > p[1] + 1

\* ------------------------------------------------------------------ C16
\* the ranges of the running round are known: the prefix sum is done
RangesKnown == pc = "write"
\* the window the round returns
ReturnsWindow(b, e) == single_done => next_begin = b /\ next_end = e

\* C16 (as stated): with merged_count mutual pairs, unmerged_count is
\* (end-begin) - 2*merged_count, children_count is 2*merged_count,
\* children_begin is end - children_count, unmerged_begin is
\* end - children_count - unmerged_count, and the round returns
\* [unmerged_begin, children_begin).
C16_RangesAsStated ==
    RangesKnown =>
        LET m == Cardinality(MutualPairs)
        IN  /\ merged_count(merged_index, begin, end) = m
            /\ unmerged_count(merged_index, begin, end) = (end - begin) - 2 * m
            /\ children_count(merged_index, begin, end) = 2 * m
            /\ children_begin(merged_index, begin, end) = end - 2 * m
            /\ unmerged_begin(merged_index, begin, end) =
                  end - 2 * m - ((end - begin) - 2 * m)
            /\ ReturnsWindow(end - 2 * m - ((end - begin) - 2 * m),
                             end - 2 * m)

\* C16 (amended): with merged_count mutual pairs, unmerged_count is
\* (end-begin) - merged_count (the nodes left unmerged and one parent per
\* pair), children_count is 2*merged_count, children_begin is
\* end - children_count, unmerged_begin is
\* end - children_count - unmerged_count, and the round returns
\* [unmerged_begin, children_begin).
C16_Ranges ==
    RangesKnown =>
        LET m == Cardinality(MutualPairs)
        IN  /\ merged_count(merged_index, begin, end) = m
            /\ unmerged_count(merged_index, begin, end) = (end - begin) - m
            /\ children_count(merged_index, begin, end) = 2 * m
            /\ children_begin(merged_index, begin, end) = end - 2 * m
            /\ unmerged_begin(merged_index, begin, end) =
                  end - 2 * m - ((end - begin) - m)
            /\ ReturnsWindow(end - 2 * m - ((end - begin) - m), end - 2 * m)

C16_Witness ==
    /\ RangesKnown /\ single_done /\ end - begin = 4
    /\ Cardinality(MutualPairs) = 2
    /\ next_begin = begin - 2 /\ next_end = end - 4

\* ------------------------------------------------------------------ C17
\* x is the lower-indexed member of a mutual pair
IsLower(x) == \E p \in MutualPairs : p[1] = x
\* x is in no mutual pair: a survivor of the round
Survivor(x) == \A p \in MutualPairs : x # p[1] /\ x # p[2]
\* zero-based rank of the pair p among the mutual pairs
PairRank(p) == Cardinality({q \in MutualPairs : q[1] < p[1]})
\* zero-based rank of x among the survivors
SurvivorRank(x) == Cardinality({y \in Window : y < x /\ Survivor(y)})
\* zero-based rank of x among the nodes that are not the lower member of a
\* pair: the survivors and the higher-indexed members
KeptRank(x) == Cardinality({y \in Window : y < x /\ ~IsLower(y)})
\* the node at slot s of the output is the parent made of the pair p
ParentAt(s, p) ==
    /\ s \in DOMAIN Output
    /\ ~Output[s].is_leaf
    /\ Output[s].vol = UnionOf(Kind, Input[p[1]].vol, Input[p[2]].vol)
    /\ LET c == Output[s].first_child_or_primitive
       IN  /\ c \in next_end .. end - 2
           /\ Output[c] = Input[p[1]] /\ Output[c + 1] = Input[p[2]]

\* C17 (as stated): a finished round has the parent of the mutual pair of
\* rank r at output slot children_begin + r and every survivor at
\* unmerged_begin + (its rank among the survivors).
C17_PlacementAsStated ==
    RoundComplete =>
        /\ \A p \in MutualPairs : ParentAt(next_end + PairRank(p), p)
        /\ \A x \in Window :
              Survivor(x) => Output[next_begin + SurvivorRank(x)] = Input[x]

\* C17 (amended): a finished round has the parent of the mutual pair (i,j)
\* at output slot unmerged_begin + (rank of j among the window nodes that
\* are not the lower member of a pair) and every survivor at
\* unmerged_begin + (its rank among those nodes): the next window keeps the
\* order of the window, a parent taking the place of its higher-indexed
\* child.
C17_Placement ==
    RoundComplete =>
        /\ \A p \in MutualPairs : ParentAt(next_begin + KeptRank(p[2]), p)
        /\ \A x \in Window :
              Survivor(x) => Output[next_begin + KeptRank(x)] = Input[x]

C17_Witness ==
    /\ RoundComplete /\ end - begin = 4 /\ Cardinality(MutualPairs) = 1
    /\ \E p \in MutualPairs, x \in Window :
          /\ Survivor(x) /\ p[2] < x
          /\ KeptRank(x) # SurvivorRank(x)
          /\ ParentAt(next_begin + KeptRank(p[2]), p)
          /\ Output[next_begin + KeptRank(x)] = Input[x]

\* ------------------------------------------------------------------ C18
\* the two child slots of the pair of rank r
ChildSlots(r) == {next_end + 2 * r, next_end + 2 * r + 1}

\* C18: a finished round holds, for the mutual pair (i,j) of rank r, input[i]
\* unchanged at children_begin + 2r and input[j] unchanged at
\* children_begin + 2r + 1; the pair's parent has is_leaf false and
\* first_child_or_primitive = children_begin + 2r; and the child slots of
\* all the pairs are the slots of [children_begin, end), each used once.
C18_ChildrenPlacement ==
    RoundComplete =>
        /\ next_end = children_begin(merged_index, begin, end)
        /\ \A p \in MutualPairs :
              LET r == PairRank(p)
                  parent == Output[next_begin + KeptRank(p[2])]
              IN  /\ Output[next_end + 2 * r] = Input[p[1]]
                  /\ Output[next_end + 2 * r + 1] = Input[p[2]]
                  /\ ~parent.is_leaf
                  /\ parent.first_child_or_primitive = next_end + 2 * r
        /\ UNION {ChildSlots(PairRank(p)) : p \in MutualPairs}
              = next_end .. end - 1
        /\ \A p, q \in MutualPairs :
              p # q => ChildSlots(PairRank(p)) \cap ChildSlots(PairRank(q)) = {}

C18_Witness ==
    /\ RoundComplete /\ Cardinality(MutualPairs) = 2 /\ search_radius = 2
    /\ \E p \in MutualPairs :
          /\ PairRank(p) = 1
          /\ Output[end - 2] = Input[p[1]] /\ Output[end - 1] = Input[p[2]]
          /\ Output[next_begin + KeptRank(p[2])].first_child_or_primitive
                = end - 2

\* ------------------------------------------------------------------ C19
\* C19: while the threads of a round run the compaction and the copy loop,
\* in any order, no output slot has been written twice and every slot
\* written lies in [next_begin, previous_end), next_begin being begin less
\* the number of mutual pairs; when both loops are finished the slots
\* written are all of [next_begin, previous_end).
C19_WritesDisjointAndCover ==
    /\ pc = "write" =>
          \A s \in BagToSet(written) :
             /\ CopiesIn(s, written) = 1
             /\ s >= begin - Cardinality(MutualPairs)
             /\ s < previous_end
    /\ RoundComplete =>
          /\ next_begin = begin - Cardinality(MutualPairs)
          /\ BagToSet(written) = next_begin .. previous_end - 1
    /\ pc # "write" => written = EmptyBag

C19_Witness ==
    /\ RoundComplete /\ num_threads = 3 /\ end - begin = 3
    /\ previous_end > end
    /\ Cardinality(MutualPairs) = 1
    /\ BagToSet(written) = next_begin .. previous_end - 1
    /\ BagCardinality(written) = previous_end - next_begin

\* ------------------------------------------------------------------ C20
\* the slots of the current buffer that hold nodes finalized by the rounds
\* run so far on the current arena: the children ranges above the window
FinalizedSlots ==
    end .. (IF handed_off THEN frontier[2] ELSE 2 * primitive_count - 1) - 1
\* a round returns: cluster() is left and the buffers are swapped
RoundReturns == pc = "write" /\ pc' # "write"

\* C20: a finished round has copied [end, previous_end) verbatim from the
\* input to the output, and the finalized slots at or above previous_end
\* held the same nodes in the output buffer already when the round began;
\* so when a round returns, the new current buffer holds every node
\* finalized before at its index, unchanged, and holds the children the
\* round has just written; and the cylinder arena is not written after the
\* hand-off.
C20_FinalizedNodesStay ==
    /\ [](RoundComplete =>
            /\ \A x \in CopyRange : Output[x] = Input[x]
            /\ \A x \in FinalizedSlots :
                  x >= previous_end =>
                     output0[x] = Input[x] /\ Output[x] = Input[x])
    /\ [][RoundReturns =>
            /\ \A x \in FinalizedSlots : Input'[x] = Input[x]
            /\ \A x \in next_end .. end - 1 : Input'[x] = Output[x]
            /\ end' = next_end]_vars
    /\ [][(handed_off /\ handed_off') => nodes' = nodes]_vars

C20_Witness ==
    /\ RoundComplete /\ rounds = 2 /\ primitive_count = 4
    /\ CopyRange # {} /\ previous_end < 2 * primitive_count - 1
    /\ \A x \in FinalizedSlots : Output[x] = Input[x]
    /\ \E x \in FinalizedSlots : x >= previous_end /\ Input[x].is_leaf
    /\ \E x \in CopyRange : ~Input[x].is_leaf

\* ------------------------------------------------------------------ C21
\* the chunk of the window thread t searches
ChunkOf(t) ==
    chunk_begin(begin, end, num_threads, t)
        .. chunk_end(begin, end, num_threads, t) - 1
\* the nodes whose neighbors[] entry the search of this round has written
NeighborsWritten == UNION {ChunkOf(t) : t \in searched}
\* the merge flags of the window summed up to node x
FlagTotal(x) ==
    Cardinality({y \in begin .. x : MergeFlag(neighbors, y) = 1})
\* a thread reads merged_index after the prefix sum: the single section or
\* an iteration of the compaction loop runs
ReadsPrefixSum ==
    \/ single_done' /\ ~single_done
    \/ compacted' # compacted /\ compacted' # {}

\* C21: an iteration i of the merge-flag loop runs only when every thread of
\* the region has finished its search chunk, so neighbors[i] and
\* neighbors[neighbors[i]] were written by this round's search; the single
\* section and the compaction loop run only when every merge flag of the
\* window was written and merged_index holds their running totals; and
\* neither array is written again while the later phases of the round read
\* it.
C21_PhasesReadFinishedData ==
    /\ [][\A i \in flagged' \ flagged :
             /\ searched = Threads
             /\ {i, neighbors[i]} \subseteq NeighborsWritten]_vars
    /\ [][ReadsPrefixSum =>
             /\ flagged = Window
             /\ \A x \in Window : merged_index[x] = FlagTotal(x)]_vars
    /\ [][(pc = "flags" /\ pc' \in {"flags", "write"}) =>
             neighbors' = neighbors]_vars
    /\ [][(pc = "write" /\ pc' = "write") =>
             neighbors' = neighbors /\ merged_index' = merged_index]_vars

C21_Witness ==
    /\ pc = "write" /\ num_threads = 3 /\ end - begin >= 3
    /\ merged_count(merged_index, begin, end) >= 1
    /\ \E i \in compacted, t \in Threads :
          i \in ChunkOf(t) /\ neighbors[i] \notin ChunkOf(t)

\* ------------------------------------------------------------------ C22
\* a parallel region of cluster() is running
InRegion == pc \in {"search", "flags", "write"}

\* C22: in every round, for every number of threads of the region (also
\* when it exceeds the size of the window), the chunks of the threads follow
\* one another from begin to end, do not overlap and together make up the
\* window; and a thread that finishes its search has changed neighbors[]
\* only inside its own chunk, so every entry of the window is written by one
\* thread.
C22_ChunksPartitionWindow ==
    /\ [](InRegion =>
            /\ chunk_begin(begin, end, num_threads, 0) = begin
            /\ chunk_end(begin, end, num_threads, num_threads - 1) = end
            /\ \A t \in Threads :
                  /\ chunk_begin(begin, end, num_threads, t)
                        <= chunk_end(begin, end, num_threads, t)
                  /\ t + 1 \in Threads =>
                        chunk_end(begin, end, num_threads, t)
                           = chunk_begin(begin, end, num_threads, t + 1)
            /\ \A t, u \in Threads : t # u => ChunkOf(t) \cap ChunkOf(u) = {}
            /\ UNION {ChunkOf(t) : t \in Threads} = Window
            /\ \A i \in Window :
                  Cardinality({t \in Threads : i \in ChunkOf(t)}) = 1)
    /\ [][\A t \in searched' \ searched :
             /\ \A x \in DOMAIN neighbors :
                   neighbors'[x] # neighbors[x] => x \in ChunkOf(t)
             /\ \A u \in searched : ChunkOf(u) \cap ChunkOf(t) = {}]_vars

C22_Witness ==
    /\ pc = "flags" /\ num_threads = 3 /\ end - begin = 2
    /\ searched = Threads
    /\ ChunkOf(0) = {} /\ ChunkOf(1) = {} /\ ChunkOf(2) = Window
    /\ \A i \in Window : neighbors[i] \in Window \ {i}

\* ------------------------------------------------------------------ C23
\* the distance matrix of the thread whose chunk starts at cb when it comes
\* to node i of the chunk
RECURSIVE MatrixAt(_, _, _, _, _, _, _)
MatrixAt(kind, input, b, e, R, cb, i) ==
    IF i <= cb THEN DistanceMatrixInit(kind, input, b, e, R, cb)
    ELSE CHOOSE dm \in
             {SearchNode(kind, input, b, e, R, i - 1, before).dm :
                 before \in {MatrixAt(kind, input, b, e, R, cb, i - 1)}} : TRUE
\* the backward neighbors of node i
BackwardOf(i) == search_range(i, begin, end, search_radius)[1] .. i - 1
\* the search without the distance matrix: every cost is recomputed
BruteForceSearch(i) ==
    LET sb == search_range(i, begin, end, search_radius)[1]
        se == search_range(i, begin, end, search_radius)[2]
        backward == [n \in 1 .. (i - sb) |->
                        LET j == sb + n - 1
                        IN  <<j, Cost(Kind, Input, j, i)>>]
        forward == [n \in 1 .. (se - i - 1) |->
                        LET j == i + n IN <<j, Cost(Kind, Input, i, j)>>]
    IN  ScanBest(backward \o forward, ScalarMax, NoNeighbor)

\* C23: for every thread, every node i of its chunk and every backward
\* neighbor j of i, the entry [i-j][i-j-1] of the thread's distance matrix,
\* when the thread comes to i, is the merge cost of j and i computed from
\* the two nodes, whether the chunk starts at begin or inside the window;
\* and when the search is over neighbors[i] is the neighbor a search that
\* recomputes every cost chooses.
C23_CacheEqualsDirectCost ==
    /\ pc = "search" =>
          \A t \in Threads : \A i \in ChunkOf(t) : \A j \in BackwardOf(i) :
             MatrixAt(Kind, Input, begin, end, search_radius,
                      chunk_begin(begin, end, num_threads, t),
                      i)[i - j][i - j - 1]
                = Cost(Kind, Input, j, i)
    /\ Searched => \A i \in Window : neighbors[i] = BruteForceSearch(i)

C23_Witness ==
    /\ pc = "search" /\ search_radius = 2 /\ end - begin = 4
    /\ \E t \in searched :
          LET cb == chunk_begin(begin, end, num_threads, t)
          IN  /\ cb = begin + 2 /\ ChunkOf(t) = {cb, cb + 1}
              /\ BackwardOf(cb + 1) = {cb - 1, cb}
              /\ MatrixAt(Kind, Input, begin, end, search_radius, cb,
                          cb + 1)[2][1] = Cost(Kind, Input, cb - 1, cb + 1)
              /\ Cost(Kind, Input, cb - 1, cb + 1)
                    > Cost(Kind, Input, cb, cb + 1)
              /\ neighbors[cb + 1] = cb

\* ------------------------------------------------------------------ C24
\* the build has stopped on "assert(best_neighbor != size_t(-1))"
AssertionFired == pc = "assert_failed"
\* thread t gets through the search of its chunk
FinishesSearch(t) == t \in searched' \ searched

\* C24: cluster() is only handed windows of two nodes or more; a thread gets
\* through its search only if every node of its chunk has another node in
\* its search range, and then stores a neighbor for each; the assertion
\* fires only in the search, on a thread whose chunk has a node with no
\* other node in range; it has fired only if search_radius = 0, and with
\* search_radius = 0 no build of two or more primitives gets past the
\* search; once it has fired nothing more is done and no tree is published.
C24_AssertionIffNoCandidate ==
    /\ [](InRegion => end - begin >= 2)
    /\ [][\A t \in Threads :
             FinishesSearch(t) =>
                \A i \in ChunkOf(t) :
                   Candidates(i) # {} /\ neighbors'[i] \in Candidates(i)]_vars
    /\ [][(~AssertionFired /\ AssertionFired') =>
             /\ pc = "search"
             /\ \E t \in Threads \ searched :
                   \E i \in ChunkOf(t) : Candidates(i) = {}]_vars
    /\ [](AssertionFired => search_radius = 0 /\ bvh = EmptyBvh)
    /\ []((search_radius = 0 /\ primitive_count >= 2) =>
             pc \in {"search", "assert_failed"})
    /\ [][~AssertionFired]_vars

C24_Witness ==
    /\ AssertionFired /\ search_radius = 0 /\ primitive_count = 2
    /\ num_threads = 3 /\ searched = {0, 1}
    /\ \A i \in Window : Candidates(i) = {}
    /\ bvh = EmptyBvh

\* ------------------------------------------------------------------ C25
\* Bvh::sibling and Bvh::is_left_sibling
sibling(index) == IF index % 2 = 1 THEN index + 1 ELSE index - 1
is_left_sibling(index) == index % 2 = 1

\* in the trees of a below the slots of roots, every internal node has an
\* odd first_child, and the two sibling functions pair its two children
SiblingsPaired(a, roots) ==
    \A r \in roots :
       \A p \in Range(Visit(a, r, 2 * primitive_count)) :
          ~a[p].is_leaf =>
             LET c == a[p].first_child_or_primitive
             IN  /\ c % 2 = 1
                 /\ sibling(c) = c + 1 /\ sibling(c + 1) = c
                 /\ is_left_sibling(c) /\ ~is_left_sibling(c + 1)

\* C25: the end of the window is odd from the start of a build on, and in
\* every tree a finished build has published (the box or cylinder tree from
\* slot 0; for a hybrid build the box tree from slot 0 and the cylinder
\* subtrees below the frontier) every internal node's first_child is odd,
\* sibling() maps each of its two children to the other and
\* is_left_sibling() is true of the child at first_child only.
C25_SiblingsByParity ==
    /\ pc # "idle" => end % 2 = 1
    /\ pc = "done" =>
          /\ variant = "box" => SiblingsPaired(bvh.nodes, {0})
          /\ variant = "cyl" => SiblingsPaired(bvh.cnodes, {0})
          /\ variant = "hybrid" =>
                /\ SiblingsPaired(bvh.nodes, {0})
                /\ SiblingsPaired(bvh.cnodes, FrontierSlots)

\* ------------------------------------------------------------------ C26
\* the nodes of the window that have a place in the next window: the
\* survivors, and the higher-indexed member of each pair for its parent
Kept == {x \in Window : ~IsLower(x)}
\* the output slot the compaction loop computes for the kept node x
SlotOf(x) == UnmergedSlot(merged_index, begin, end, x)

\* C26: when a round is finished, the output slots of the kept nodes rise
\* with their input indices and are exactly [next_begin, next_end), which
\* has (end-begin) - merged_count slots; the slot of a survivor holds the
\* survivor unchanged and the slot of the higher-indexed member of a pair
\* holds the parent of the pair.
C26_CompactionKeepsOrder ==
    RoundComplete =>
        /\ \A a, b \in Kept : a < b => SlotOf(a) < SlotOf(b)
        /\ {SlotOf(x) : x \in Kept} = next_begin .. next_end - 1
        /\ next_end - next_begin
              = (end - begin) - merged_count(merged_index, begin, end)
        /\ next_end - next_begin = Cardinality(Kept)
        /\ \A x \in Kept :
              IF Survivor(x) THEN Output[SlotOf(x)] = Input[x]
              ELSE \E p \in MutualPairs :
                      p[2] = x /\ ParentAt(SlotOf(x), p)

C26_Witness ==
    /\ RoundComplete /\ end - begin = 4 /\ Cardinality(MutualPairs) = 1
    /\ \E p \in MutualPairs, x, y \in Kept :
          /\ x < p[1] /\ p[2] < y /\ Survivor(x) /\ Survivor(y)
          /\ SlotOf(x) = next_begin /\ SlotOf(p[2]) = next_begin + 1
          /\ SlotOf(y) = next_begin + 2 /\ next_end = next_begin + 3
          /\ ParentAt(next_begin + 1, p)

====
